---- MODULE Spec2Model ----
(***************************************************************************)
(* State-machine model of the todo-app API: user registration, login with *)
(* the authentication cache, JWT refresh / logout (blacklist), profile     *)
(* self-service and the owner-scoped task endpoints.                       *)
(*                                                                         *)
(* Every request handler is one action (registration is also available as *)
(* two steps, validation and save, for concurrent requests).  The last    *)
(* response is kept in `resp`, together with the request that caused it.  *)
(***************************************************************************)
EXTENDS Integers, Sequences, FiniteSets, TLC

\* ------------------------------------------------------------------ bounds
MaxUsers == 2
MaxRefresh == 2
MaxTasks == 1
MaxAccess == 3
MaxNow == 2

\* ------------------------------------------------------------------ inputs
\* "" stands for a field that is absent from the request.
Emails == {"a@x.com", "b@x.com"}
CreateEmails == Emails \cup {"a@X.com"}
Passwords == {"Secret123", "Hunter456"}
WeakPassword == "pw"
Clients == {"c1", "c2"}

VARIABLES
    users,        \* rows of core.User
    cache,        \* django.core.cache: key -> cached value
    outstanding,  \* refresh tokens signed so far (token string, jti, user id)
    blacklist,    \* jti of the blacklisted refresh tokens
    expired,      \* token strings whose lifetime has run out
    access,       \* access tokens signed so far (token string, user id, jti of
                  \* the refresh token it was made from)
    tasks,        \* rows of core.Task
    nextTaskId,   \* auto-increment id of core.Task
    now,          \* timezone.now(), in ticks
    inflight,     \* registration requests between validation and save
    resp,         \* the last request and its response
    loggedOut,    \* history: refresh tokens whose logout returned 200
    prevPassword  \* history: user id -> hash replaced by the last password change

vars == <<users, cache, outstanding, blacklist, expired, access, tasks,
          nextTaskId, now, inflight, resp, loggedOut, prevPassword>>

\* ------------------------------------------------------------ data helpers
NoHash == "!"
NoUser == [id |-> 0, email |-> "", name |-> "", password |-> NoHash, is_active |-> FALSE]
NoUserRep == [id |-> 0, name |-> "", email |-> ""]
\* Dates are day numbers; Today is timezone.now().date() and NoDate is null.
Today == 2
NoDate == 0
Dates == (Today - 1)..(Today + 1)
NoTask == [id |-> 0, user |-> 0, title |-> "", status |-> "", due_date |-> NoDate,
           created_at |-> 0, updated_at |-> 0]
NoTaskData == [title |-> "", status |-> "", due_date |-> NoDate, user |-> 0]
NoData == [email |-> "", name |-> "", password |-> "", confirm_password |-> ""]

\* AbstractBaseUser.set_password / check_password: a one-way hash of the plaintext,
\* stored as algorithm$digest.
make_password(raw) == "pbkdf2_sha256$" \o raw
check_password(raw, hash) == hash = make_password(raw)

\* BaseUserManager.normalize_email: the domain part is lower-cased.
normalize_email(email) == IF email = "a@X.com" THEN "a@x.com" ELSE email

\* validate_password (AUTH_PASSWORD_VALIDATORS): minimum length.
validate_password(raw) == Len(raw) >= 8

UserById(uid) == IF \E u \in users : u.id = uid
                 THEN CHOOSE u \in users : u.id = uid
                 ELSE NoUser

\* Mutant: the stored password is part of the representation.
to_representation_WithPassword(u) ==
    [id |-> u.id, name |-> u.name, email |-> u.email, password |-> u.password]

\* UserSerializer.to_representation: password and confirm_password are dropped.
to_representation(u) == [id |-> u.id, name |-> u.name, email |-> u.email]

EmptyResp == [op |-> "", status |-> 0, detail |-> "",
              bearer |-> "", email |-> "", password |-> "", token |-> "", id |-> 0,
              name |-> "", confirm_password |-> "",
              data |-> NoTaskData, validated |-> FALSE,
              user |-> NoUserRep, refresh |-> "", access |-> "", tasks |-> {}]

\* ------------------------------------------------------------------- cache
AuthCacheKey(email) == "user_auth_" \o email
UserCacheKey(uid) == "user_" \o ToString(uid)

cache_get(c, key) == IF key \in DOMAIN c THEN c[key] ELSE NoUser
cache_set(c, key, value) == [k \in (DOMAIN c) \cup {key} |-> IF k = key THEN value ELSE c[k]]
cache_delete(c, key) == [k \in (DOMAIN c) \ {key} |-> c[k]]

\* ------------------------------------------------------------ registration
\* Mutant: the object-level check of the two password fields is gone.
UserSerializer_validate_Skipped(attrs) == TRUE

\* Field validation of UserSerializer for POST /user/create/ (is_valid): required
\* fields, UniqueValidator on email (exact match on the stored value), min_length
\* of name, validate_password, then UserSerializer.validate.
UserSerializer_validate(attrs) == attrs.password = attrs.confirm_password

CreateFieldErrors(data) ==
    (IF data.email = "" \/ \E u \in users : u.email = data.email THEN {"email"} ELSE {})
    \cup (IF Len(data.name) < 2 THEN {"name"} ELSE {})
    \cup (IF data.password = "" \/ ~validate_password(data.password) THEN {"password"} ELSE {})
    \cup (IF data.confirm_password = "" THEN {"confirm_password"} ELSE {})

CreateErrors(data) ==
    IF CreateFieldErrors(data) # {} THEN CreateFieldErrors(data)
    ELSE IF ~UserSerializer_validate(data) THEN {"password"}
    ELSE {}

\* UserManager.create_user: the row that is inserted.
create_user(data) ==
    [id |-> Cardinality(users) + 1,
     email |-> normalize_email(data.email),
     name |-> data.name,
     password |-> make_password(data.password),
     is_active |-> TRUE]

\* email is unique=True: the insert raises IntegrityError on a duplicate.
IntegrityError(row) == \E u \in users : u.email = row.email

\* UserSerializer.create and the response of CreateUserView; an IntegrityError is
\* handled nowhere and ends the request with a server error.
UserSerializer_create(data) ==
    LET row == create_user(data)
    IN IF IntegrityError(row)
       THEN [status |-> 500, detail |-> "IntegrityError", users |-> users,
             cache |-> cache, user |-> NoUserRep]
       ELSE [status |-> 201, detail |-> "", users |-> users \cup {row},
             cache |-> cache_delete(cache, UserCacheKey(row.id)),
             user |-> to_representation(row)]

CreateResp(data, validated, status, detail, rep) ==
    [EmptyResp EXCEPT !.op = "create", !.email = data.email, !.password = data.password,
                      !.name = data.name, !.confirm_password = data.confirm_password,
                      !.validated = validated, !.status = status, !.detail = detail,
                      !.user = rep]

\* POST /user/create/ handled from start to end with no other request in between.
CreateUser(data) ==
    /\ Cardinality(users) < MaxUsers
    /\ IF CreateErrors(data) # {}
       THEN /\ resp' = CreateResp(data, FALSE, 400, "ValidationError", NoUserRep)
            /\ UNCHANGED <<users, cache>>
       ELSE LET r == UserSerializer_create(data)
            IN /\ users' = r.users
               /\ cache' = r.cache
               /\ resp' = CreateResp(data, TRUE, r.status, r.detail, r.user)
    /\ UNCHANGED <<outstanding, blacklist, expired, access, tasks, nextTaskId, now,
                   inflight, loggedOut, prevPassword>>

\* POST /user/create/ of client c, first step: serializer.is_valid().
CreateUserValidate(c, data) ==
    /\ Cardinality(users) < MaxUsers
    /\ \A r \in inflight : r.client # c
    /\ IF CreateErrors(data) # {}
       THEN /\ resp' = CreateResp(data, FALSE, 400, "ValidationError", NoUserRep)
            /\ UNCHANGED inflight
       ELSE /\ inflight' = inflight \cup {[client |-> c, data |-> data]}
            /\ resp' = [EmptyResp EXCEPT !.op = "create_validated", !.email = data.email]
    /\ UNCHANGED <<users, cache, outstanding, blacklist, expired, access, tasks,
                   nextTaskId, now, loggedOut, prevPassword>>

\* POST /user/create/ of client c, second step: serializer.save() and the response.
CreateUserSave(c) ==
    /\ \E r \in inflight :
         /\ r.client = c
         /\ LET s == UserSerializer_create(r.data)
            IN /\ users' = s.users
               /\ cache' = s.cache
               /\ resp' = CreateResp(r.data, TRUE, s.status, s.detail, s.user)
         /\ inflight' = inflight \ {r}
    /\ UNCHANGED <<outstanding, blacklist, expired, access, tasks, nextTaskId, now,
                   loggedOut, prevPassword>>

\* -------------------------------------------------------------------- login
\* Mutant: the password is not verified.
authenticate_AnyPassword(email, password) ==
    LET found == {u \in users : u.email = email}
    IN IF found = {} THEN NoUser
       ELSE LET u == CHOOSE x \in found : TRUE
            IN IF u.is_active THEN u ELSE NoUser

\* django.contrib.auth.authenticate with ModelBackend: the row whose email is the
\* given one, if the password verifies and the user is active.
authenticate(email, password) ==
    LET found == {u \in users : u.email = email}
    IN IF found = {} THEN NoUser
       ELSE LET u == CHOOSE x \in found : TRUE
            IN IF check_password(password, u.password) /\ u.is_active THEN u ELSE NoUser

\* AuthTokenSerializer.validate: the cached user is taken when there is one.
AuthTokenSerializer_validate(email, password) ==
    LET cache_key == AuthCacheKey(email)
        cached == cache_get(cache, cache_key)
        user == IF cached = NoUser THEN authenticate(email, password) ELSE cached
    IN [user |-> user,
        cache |-> IF cached = NoUser /\ user # NoUser
                  THEN cache_set(cache, cache_key, user)
                  ELSE cache,
        detail |-> IF user = NoUser THEN "Invalid credentials."
                   ELSE IF ~user.is_active THEN "User account is disabled."
                   ELSE ""]

\* Mutant: email and password are optional fields.
AuthTokenSerializer_fields_Optional(email, password) == {}

\* Field validation of AuthTokenSerializer: email and password are required and
\* not blank; validate() runs only when there is no field error.
AuthTokenSerializer_fields(email, password) ==
    (IF email = "" THEN {"email"} ELSE {})
    \cup (IF password = "" THEN {"password"} ELSE {})

\* RefreshToken.for_user and refresh.access_token.
RefreshFor(user) ==
    LET jti == Cardinality(outstanding) + 1
    IN [token |-> "refresh_" \o ToString(jti), jti |-> jti, user_id |-> user.id]
\* Every access token is a new one, for the user the refresh token names; it is
\* numbered within the access tokens made from that refresh token.
AccessFor(refresh) ==
    LET n == Cardinality({a \in access : a.parent = refresh.jti}) + 1
    IN [token |-> "access_" \o ToString(refresh.jti) \o "_" \o ToString(n),
        user_id |-> refresh.user_id, parent |-> refresh.jti]

\* LoginView.post: 400 for a missing field, 401 for an error of code
\* 'authorization' (the first of them is validate()'s own check for an empty
\* email or password), else the token pair and the user.
LoginView_post(email, password) ==
    IF AuthTokenSerializer_fields(email, password) # {}
    THEN [status |-> 400, detail |-> "required", user |-> NoUser, cache |-> cache]
    ELSE IF email = "" \/ password = ""
    THEN [status |-> 401, detail |-> "Please provide both email and password.",
          user |-> NoUser, cache |-> cache]
    ELSE LET v == AuthTokenSerializer_validate(email, password)
         IN [status |-> IF v.detail = "" THEN 200 ELSE 401,
             detail |-> v.detail, user |-> v.user, cache |-> v.cache]

Login(email, password) ==
    /\ Cardinality(outstanding) < MaxRefresh
    /\ LET r == LoginView_post(email, password)
           ok == r.status = 200
       IN /\ cache' = r.cache
          /\ outstanding' = IF ok THEN outstanding \cup {RefreshFor(r.user)} ELSE outstanding
          /\ access' = IF ok THEN access \cup {AccessFor(RefreshFor(r.user))} ELSE access
          /\ resp' = [EmptyResp EXCEPT
                        !.op = "login", !.email = email, !.password = password,
                        !.status = r.status, !.detail = r.detail,
                        !.user = IF ok THEN to_representation(r.user) ELSE NoUserRep,
                        !.refresh = IF ok THEN RefreshFor(r.user).token ELSE "",
                        !.access = IF ok THEN AccessFor(RefreshFor(r.user)).token ELSE ""]
    /\ UNCHANGED <<users, blacklist, expired, tasks, nextTaskId, now, inflight,
                   loggedOut, prevPassword>>

\* The cache entry set with timeout=300 runs out.
CacheExpire(key) ==
    /\ key \in DOMAIN cache
    /\ cache' = cache_delete(cache, key)
    /\ resp' = [EmptyResp EXCEPT !.op = "cache_expire"]
    /\ UNCHANGED <<users, outstanding, blacklist, expired, access, tasks, nextTaskId, now,
                   inflight, loggedOut, prevPassword>>

\* ------------------------------------------------------------------- tokens
\* Mutant: a refresh token of a user who has changed the password is refused.
RefreshToken_verify_RevokedByPassword(token) ==
    LET found == {t \in outstanding : t.token = token}
    IN IF found = {} THEN "Token is invalid"
       ELSE IF token \in expired THEN "Token is expired"
       ELSE IF (CHOOSE t \in found : TRUE).jti \in blacklist THEN "Token is blacklisted"
       ELSE IF prevPassword[(CHOOSE t \in found : TRUE).user_id] # NoHash
       THEN "Token is revoked"
       ELSE ""

\* Mutant: verify() without the blacklist check.
RefreshToken_verify_NoBlacklist(token) ==
    IF \A t \in outstanding : t.token # token THEN "Token is invalid"
    ELSE IF token \in expired THEN "Token is expired"
    ELSE ""

\* RefreshToken(token): decoding and verify() of simplejwt with the blacklist
\* app; "" when the token is accepted, else the TokenError.
RefreshToken_verify(token) ==
    LET found == {t \in outstanding : t.token = token}
    IN IF found = {} THEN "Token is invalid"
       ELSE IF token \in expired THEN "Token is expired"
       ELSE IF (CHOOSE t \in found : TRUE).jti \in blacklist THEN "Token is blacklisted"
       ELSE ""

RefreshPayload(token) == CHOOSE t \in outstanding : t.token = token

\* Mutant: logout answers 200 without recording the jti.
RefreshToken_blacklist_Forgotten(token) == blacklist

\* token.blacklist(): the jti is recorded as blacklisted.
RefreshToken_blacklist(token) == blacklist \cup {RefreshPayload(token).jti}

\* LogoutView.post.
LogoutView_post(token) ==
    IF token = ""
    THEN [status |-> 400, detail |-> "Refresh token is required", blacklist |-> blacklist]
    ELSE IF RefreshToken_verify(token) # ""
    THEN [status |-> 400, detail |-> "Invalid refresh token", blacklist |-> blacklist]
    ELSE [status |-> 200, detail |-> "Successfully logged out",
          blacklist |-> RefreshToken_blacklist(token)]

Logout(token) ==
    /\ LET r == LogoutView_post(token)
       IN /\ blacklist' = r.blacklist
          /\ loggedOut' = IF r.status = 200 THEN loggedOut \cup {token} ELSE loggedOut
          /\ resp' = [EmptyResp EXCEPT !.op = "logout", !.token = token,
                                       !.status = r.status, !.detail = r.detail]
    /\ UNCHANGED <<users, cache, outstanding, expired, access, tasks, nextTaskId, now,
                   inflight, prevPassword>>

\* Mutant: the refresh token is rotated and the old one blacklisted.
TokenRefreshSerializer_blacklist_Rotated(token) ==
    blacklist \cup {RefreshPayload(token).jti}

\* TokenRefreshSerializer.validate: without rotation the refresh token is left
\* as it is.
TokenRefreshSerializer_blacklist(token) == blacklist

\* TokenRefreshView (simplejwt, refresh tokens are not rotated): 400 without the
\* field, 401 for a token that does not verify, else a new access token.
TokenRefreshView_post(token) ==
    IF token = ""
    THEN [status |-> 400, detail |-> "required", access |-> ""]
    ELSE IF RefreshToken_verify(token) # ""
    THEN [status |-> 401, detail |-> RefreshToken_verify(token), access |-> ""]
    ELSE [status |-> 200, detail |-> "", access |-> AccessFor(RefreshPayload(token)).token]

TokenRefresh(token) ==
    /\ TokenRefreshView_post(token).status = 200 => Cardinality(access) < MaxAccess
    /\ LET r == TokenRefreshView_post(token)
       IN /\ access' = IF r.status = 200
                       THEN access \cup {AccessFor(RefreshPayload(token))}
                       ELSE access
          /\ blacklist' = IF r.status = 200
                          THEN TokenRefreshSerializer_blacklist(token)
                          ELSE blacklist
          /\ resp' = [EmptyResp EXCEPT !.op = "refresh", !.token = token,
                                       !.status = r.status, !.detail = r.detail,
                                       !.access = r.access]
    /\ UNCHANGED <<users, cache, outstanding, expired, tasks, nextTaskId, now,
                   inflight, loggedOut, prevPassword>>

\* The lifetime of a refresh token runs out.
TokenExpire(token) ==
    /\ \E t \in outstanding : t.token = token
    /\ token \notin expired
    /\ expired' = expired \cup {token}
    /\ resp' = [EmptyResp EXCEPT !.op = "token_expire", !.token = token]
    /\ UNCHANGED <<users, cache, outstanding, blacklist, access, tasks, nextTaskId, now,
                   inflight, loggedOut, prevPassword>>

\* ------------------------------------------------------------------ profile
\* Mutant: an access token made from a blacklisted refresh token is refused.
JWTAuthentication_ChecksBlacklist(bearer) ==
    LET toks == {a \in access : a.token = bearer /\ a.parent \notin blacklist}
    IN IF toks = {} \/ bearer \in expired THEN NoUser
       ELSE LET u == UserById((CHOOSE a \in toks : TRUE).user_id)
            IN IF u.is_active THEN u ELSE NoUser

\* Mutant: the lifetime of the access token is not checked.
JWTAuthentication_NoExpiry(bearer) ==
    LET toks == {a \in access : a.token = bearer}
    IN IF toks = {} THEN NoUser
       ELSE LET u == UserById((CHOOSE a \in toks : TRUE).user_id)
            IN IF u.is_active THEN u ELSE NoUser

\* JWTAuthentication + IsAuthenticated: the active user named by an access token
\* that was signed by the server and has not expired; NoUser stands for the 401.
JWTAuthentication(bearer) ==
    LET toks == {a \in access : a.token = bearer}
    IN IF toks = {} \/ bearer \in expired THEN NoUser
       ELSE LET u == UserById((CHOOSE a \in toks : TRUE).user_id)
            IN IF u.is_active THEN u ELSE NoUser

\* The lifetime of an access token runs out.
AccessExpire(token) ==
    /\ \E a \in access : a.token = token
    /\ token \notin expired
    /\ expired' = expired \cup {token}
    /\ resp' = [EmptyResp EXCEPT !.op = "access_expire", !.token = token]
    /\ UNCHANGED <<users, cache, outstanding, blacklist, access, tasks, nextTaskId, now,
                   inflight, loggedOut, prevPassword>>

\* Field validation of UserSerializer for PATCH /user/me/ (partial): only the
\* fields that are present are validated; UniqueValidator excludes the instance.
UpdateFieldErrors(instance, data) ==
    (IF data.email # "" /\ \E u \in users : u.id # instance.id /\ u.email = data.email THEN {"email"} ELSE {})
    \cup (IF data.name # "" /\ Len(data.name) < 2 THEN {"name"} ELSE {})
    \cup (IF data.password # "" /\ ~validate_password(data.password) THEN {"password"} ELSE {})

UpdateErrors(instance, data) ==
    IF UpdateFieldErrors(instance, data) # {} THEN UpdateFieldErrors(instance, data)
    ELSE IF ~UserSerializer_validate(data) THEN {"password"}
    ELSE {}

\* UserSerializer.update: the instance after setattr / set_password / save.
UserSerializer_update(instance, data) ==
    [instance EXCEPT
        !.email = IF data.email # "" THEN data.email ELSE @,
        !.name = IF data.name # "" THEN data.name ELSE @,
        !.password = IF data.password # "" THEN make_password(data.password) ELSE @]

\* The cache key UserSerializer.update deletes after saving.
UpdateCacheKey(instance) == UserCacheKey(instance.id)

ManageUserUpdate(bearer, data) ==
    LET me == JWTAuthentication(bearer)
        base == [EmptyResp EXCEPT !.op = "me_update", !.bearer = bearer,
                                  !.email = data.email, !.password = data.password,
                                  !.name = data.name,
                                  !.confirm_password = data.confirm_password]
    IN /\ IF me = NoUser
          THEN /\ resp' = [base EXCEPT !.status = 401, !.detail = "NotAuthenticated"]
               /\ UNCHANGED <<users, cache, prevPassword>>
          ELSE IF UpdateErrors(me, data) # {}
          THEN /\ resp' = [base EXCEPT !.status = 400, !.detail = "ValidationError"]
               /\ UNCHANGED <<users, cache, prevPassword>>
          ELSE LET new == UserSerializer_update(me, data)
               IN /\ users' = (users \ {me}) \cup {new}
                  /\ cache' = cache_delete(cache, UpdateCacheKey(me))
                  /\ prevPassword' = IF data.password # ""
                                     THEN [prevPassword EXCEPT ![me.id] = me.password]
                                     ELSE prevPassword
                  /\ resp' = [base EXCEPT !.status = 200, !.validated = TRUE,
                                          !.user = to_representation(new)]
       /\ UNCHANGED <<outstanding, blacklist, expired, access, tasks, nextTaskId, now,
                      inflight, loggedOut>>

\* GET /user/me/: the representation of the caller.
ManageUserRetrieve(bearer) ==
    LET me == JWTAuthentication(bearer)
        base == [EmptyResp EXCEPT !.op = "me_retrieve", !.bearer = bearer]
    IN /\ resp' = IF me = NoUser
                  THEN [base EXCEPT !.status = 401, !.detail = "NotAuthenticated"]
                  ELSE [base EXCEPT !.status = 200, !.user = to_representation(me)]
       /\ UNCHANGED <<users, cache, outstanding, blacklist, expired, access, tasks,
                      nextTaskId, now, inflight, loggedOut, prevPassword>>

\* UserAdmin: the admin site sets is_active of a user.
AdminSetActive(uid, flag) ==
    /\ \E u \in users :
         /\ u.id = uid
         /\ u.is_active # flag
         /\ users' = (users \ {u}) \cup {[u EXCEPT !.is_active = flag]}
    /\ resp' = [EmptyResp EXCEPT !.op = "admin", !.id = uid]
    /\ UNCHANGED <<cache, outstanding, blacklist, expired, access, tasks, nextTaskId, now,
                   inflight, loggedOut, prevPassword>>

\* -------------------------------------------------------------------- tasks
\* Mutant: the queryset is not restricted to the caller.
get_queryset_AllRows(rows, user) == rows

\* TaskViewSet.get_queryset: the rows of the caller.
get_queryset(rows, user) == {t \in rows : t.user = user.id}

\* TaskViewSet.get_object: get_object_or_404 on the queryset, then the owner check.
get_object(rows, user, pk) ==
    LET found == {t \in get_queryset(rows, user) : t.id = pk}
    IN IF found = {}
       THEN [exc |-> "Http404", msg |-> "No Task matches the given query.", obj |-> NoTask]
       ELSE LET obj == CHOOSE t \in found : TRUE
            IN IF obj.user # user.id
               THEN [exc |-> "Http404", msg |-> "Task not found", obj |-> NoTask]
               ELSE [exc |-> "", msg |-> "", obj |-> obj]

\* TaskSerializer.validate_due_date: a date before today is refused.
validate_due_date(value) == ~(value # NoDate /\ value < Today)

\* Field validation of TaskSerializer: title is required unless partial and has
\* at least 3 characters; due_date is optional.
TaskErrors(data, partial) ==
    (IF data.title = "" /\ ~partial THEN {"title"} ELSE {})
    \cup (IF data.title # "" /\ Len(data.title) < 3 THEN {"title"} ELSE {})
    \cup (IF ~validate_due_date(data.due_date) THEN {"due_date"} ELSE {})

\* Mutant: the user field of the serializer is writable.
to_internal_value_UserWritable(data) == data

\* The validated data: user is a read-only field, a value for it in the request
\* is dropped.
to_internal_value(data) == [data EXCEPT !.user = 0]

\* TaskSerializer.create with perform_create: the owner is the caller; auto_now_add
\* and auto_now stamp the new row.
TaskSerializer_create(user, data, pk) ==
    LET validated_data == [to_internal_value(data) EXCEPT !.user = user.id]
    IN [id |-> pk, user |-> validated_data.user, title |-> validated_data.title,
        status |-> IF validated_data.status = "" THEN "pending" ELSE validated_data.status,
        due_date |-> validated_data.due_date,
        created_at |-> now, updated_at |-> now]

\* list(validated_data.keys()) of an update: the serializer is partial, so a field
\* missing from the request gets no default and is no key of the validated data.
update_fields(data) ==
    LET validated_data == to_internal_value(data)
    IN {f \in DOMAIN validated_data : validated_data[f] # NoTaskData[f]}

\* Mutant: save() without update_fields writes every column of the instance and
\* auto_now stamps updated_at.
Model_save_AllFields(rows, instance, fields) ==
    {t \in rows : t.id # instance.id} \cup {[instance EXCEPT !.updated_at = now]}

\* Model.save(update_fields=fields): an UPDATE of the named columns of the row
\* with the primary key of the instance; pre_save (auto_now) runs for the named
\* columns only, and an empty list saves nothing.
Model_save(rows, instance, fields) ==
    {t \in rows : t.id # instance.id} \cup
    {[t EXCEPT !.title = IF "title" \in fields THEN instance.title ELSE @,
               !.status = IF "status" \in fields THEN instance.status ELSE @,
               !.due_date = IF "due_date" \in fields THEN instance.due_date ELSE @,
               !.user = IF "user" \in fields THEN instance.user ELSE @,
               !.updated_at = IF "updated_at" \in fields THEN now ELSE @]
       : t \in {t \in rows : t.id = instance.id}}

\* TaskSerializer.update, the setattr loop: the fields of the validated data are
\* set on the instance.
TaskSerializer_update(instance, data) ==
    LET validated_data == to_internal_value(data)
    IN [instance EXCEPT
          !.title = IF validated_data.title # "" THEN validated_data.title ELSE @,
          !.status = IF validated_data.status # "" THEN validated_data.status ELSE @,
          !.due_date = IF validated_data.due_date # NoDate THEN validated_data.due_date ELSE @,
          !.user = IF validated_data.user # 0 THEN validated_data.user ELSE @]

\* TaskViewSet.retrieve: Http404 reaches the exception handler of the framework.
TaskViewSet_retrieve(rows, user, pk) ==
    LET g == get_object(rows, user, pk)
    IN IF g.exc # ""
       THEN [status |-> 404, detail |-> g.msg, body |-> {}, rows |-> rows]
       ELSE [status |-> 200, detail |-> "", body |-> {g.obj}, rows |-> rows]

\* perform_update: serializer.save() on the loaded instance, then serializer.data
\* of that instance. A save that names columns and finds no row raises
\* DatabaseError, which `except Exception` answers.
perform_update(rows, instance, data) ==
    IF update_fields(data) # {} /\ \A t \in rows : t.id # instance.id
    THEN [status |-> 500, detail |-> "An unexpected error occurred", body |-> {},
          rows |-> rows]
    ELSE LET new == TaskSerializer_update(instance, data)
         IN [status |-> 200, detail |-> "", body |-> {new},
             rows |-> Model_save(rows, new, update_fields(data))]

\* TaskViewSet.update: Http404 and the serializer's ValidationError are neither
\* django's ValidationError nor Task.DoesNotExist, so `except Exception` answers.
TaskViewSet_update(rows, user, pk, data) ==
    LET g == get_object(rows, user, pk)
    IN IF g.exc # "" \/ TaskErrors(data, TRUE) # {}
       THEN [status |-> 500, detail |-> "An unexpected error occurred", body |-> {},
             rows |-> rows]
       ELSE perform_update(rows, g.obj, data)

\* TaskViewSet.destroy: Http404 is answered by `except Exception`.
TaskViewSet_destroy(rows, user, pk) ==
    LET g == get_object(rows, user, pk)
    IN IF g.exc # ""
       THEN [status |-> 500, detail |-> "An unexpected error occurred", body |-> {},
             rows |-> rows]
       ELSE [status |-> 204, detail |-> "Task deleted successfully", body |-> {},
             rows |-> rows \ {g.obj}]

TaskResp(op, bearer, pk, data, r) ==
    [EmptyResp EXCEPT !.op = op, !.bearer = bearer, !.id = pk, !.data = data,
                      !.status = r.status, !.detail = r.detail, !.tasks = r.body]

Unauthorized == [status |-> 401, detail |-> "NotAuthenticated", body |-> {}, rows |-> tasks]

TaskUnchanged == UNCHANGED <<users, cache, outstanding, blacklist, expired, access,
                             now, inflight, loggedOut, prevPassword>>

\* POST /api/v1/tasks/
TaskCreate(bearer, data) ==
    /\ nextTaskId <= MaxTasks
    /\ LET user == JWTAuthentication(bearer)
       IN IF user = NoUser
          THEN /\ resp' = TaskResp("task_create", bearer, 0, data, Unauthorized)
               /\ UNCHANGED <<tasks, nextTaskId>>
          ELSE IF TaskErrors(data, FALSE) # {}
          THEN /\ resp' = [TaskResp("task_create", bearer, 0, data, Unauthorized)
                             EXCEPT !.status = 400, !.detail = "ValidationError"]
               /\ UNCHANGED <<tasks, nextTaskId>>
          ELSE LET new == TaskSerializer_create(user, data, nextTaskId)
               IN /\ tasks' = tasks \cup {new}
                  /\ nextTaskId' = nextTaskId + 1
                  /\ resp' = [TaskResp("task_create", bearer, new.id, data, Unauthorized)
                                EXCEPT !.status = 201, !.detail = "", !.tasks = {new},
                                       !.validated = TRUE]
    /\ TaskUnchanged

\* GET /api/v1/tasks/
TaskList(bearer) ==
    /\ LET user == JWTAuthentication(bearer)
       IN resp' = IF user = NoUser
                  THEN TaskResp("task_list", bearer, 0, NoTaskData, Unauthorized)
                  ELSE TaskResp("task_list", bearer, 0, NoTaskData,
                                [status |-> 200, detail |-> "",
                                 body |-> get_queryset(tasks, user)])
    /\ UNCHANGED <<tasks, nextTaskId>>
    /\ TaskUnchanged

\* GET /api/v1/tasks/{pk}/
TaskRetrieve(bearer, pk) ==
    /\ LET user == JWTAuthentication(bearer)
       IN resp' = IF user = NoUser
                  THEN TaskResp("task_retrieve", bearer, pk, NoTaskData, Unauthorized)
                  ELSE TaskResp("task_retrieve", bearer, pk, NoTaskData,
                                TaskViewSet_retrieve(tasks, user, pk))
    /\ UNCHANGED <<tasks, nextTaskId>>
    /\ TaskUnchanged

\* PUT / PATCH /api/v1/tasks/{pk}/
TaskUpdate(bearer, pk, data) ==
    /\ LET user == JWTAuthentication(bearer)
           r == IF user = NoUser THEN Unauthorized
                ELSE TaskViewSet_update(tasks, user, pk, data)
       IN /\ tasks' = r.rows
          /\ resp' = [TaskResp("task_update", bearer, pk, data, r)
                        EXCEPT !.validated = TaskErrors(data, TRUE) = {}]
    /\ UNCHANGED nextTaskId
    /\ TaskUnchanged

\* PUT / PATCH /api/v1/tasks/{pk}/ of client c, first step: authentication,
\* get_object() and serializer.is_valid().
TaskUpdateLoad(c, bearer, pk, data) ==
    /\ \A r \in inflight : r.client # c
    /\ LET user == JWTAuthentication(bearer)
           r == IF user = NoUser THEN Unauthorized
                ELSE TaskViewSet_update(tasks, user, pk, data)
       IN IF r.status # 200
          THEN /\ resp' = [TaskResp("task_update", bearer, pk, data, r)
                             EXCEPT !.validated = TaskErrors(data, TRUE) = {}]
               /\ UNCHANGED inflight
          ELSE /\ inflight' = inflight \cup
                     {[client |-> c, bearer |-> bearer, data |-> data,
                       instance |-> get_object(tasks, user, pk).obj]}
               /\ resp' = [EmptyResp EXCEPT !.op = "task_update_loaded",
                                            !.bearer = bearer, !.id = pk, !.data = data]
    /\ UNCHANGED <<users, cache, outstanding, blacklist, expired, access, tasks,
                   nextTaskId, now, loggedOut, prevPassword>>

\* PUT / PATCH /api/v1/tasks/{pk}/ of client c, second step: perform_update() and
\* the response.
TaskUpdateSave(c) ==
    /\ \E r \in inflight :
         /\ r.client = c
         /\ LET s == perform_update(tasks, r.instance, r.data)
            IN /\ tasks' = s.rows
               /\ resp' = [TaskResp("task_update", r.bearer, r.instance.id, r.data, s)
                             EXCEPT !.validated = TRUE]
         /\ inflight' = inflight \ {r}
    /\ UNCHANGED <<users, cache, outstanding, blacklist, expired, access, nextTaskId,
                   now, loggedOut, prevPassword>>

\* timezone.now() advances.
Tick ==
    /\ now < MaxNow
    /\ now' = now + 1
    /\ resp' = [EmptyResp EXCEPT !.op = "tick"]
    /\ UNCHANGED <<users, cache, outstanding, blacklist, expired, access, tasks,
                   nextTaskId, inflight, loggedOut, prevPassword>>

\* DELETE /api/v1/tasks/{pk}/
TaskDestroy(bearer, pk) ==
    /\ LET user == JWTAuthentication(bearer)
           r == IF user = NoUser THEN Unauthorized
                ELSE TaskViewSet_destroy(tasks, user, pk)
       IN /\ tasks' = r.rows
          /\ resp' = TaskResp("task_destroy", bearer, pk, NoTaskData, r)
    /\ UNCHANGED nextTaskId
    /\ TaskUnchanged

\* ----------------------------------------------------------- specifications
RegisteredUser(uid, email, name, password) ==
    [id |-> uid, email |-> normalize_email(email), name |-> name,
     password |-> make_password(password), is_active |-> TRUE]

InitEmpty ==
    /\ users = {}
    /\ cache = << >>
    /\ outstanding = {}
    /\ blacklist = {}
    /\ expired = {}
    /\ access = {}
    /\ tasks = {}
    /\ nextTaskId = 1
    /\ now = 1
    /\ inflight = {}
    /\ resp = EmptyResp
    /\ loggedOut = {}
    /\ prevPassword = [uid \in 1..MaxUsers |-> NoHash]

\* One user has registered (POST /user/create/ answered 201).
InitRegistered ==
    /\ users = {RegisteredUser(1, "a@x.com", "Al", "Secret123")}
    /\ cache = << >>
    /\ outstanding = {}
    /\ blacklist = {}
    /\ expired = {}
    /\ access = {}
    /\ tasks = {}
    /\ nextTaskId = 1
    /\ now = 1
    /\ inflight = {}
    /\ resp = EmptyResp
    /\ loggedOut = {}
    /\ prevPassword = [uid \in 1..MaxUsers |-> NoHash]

\* Two users have registered.
InitTwoUsers ==
    /\ users = {RegisteredUser(1, "a@x.com", "Al", "Secret123"),
                RegisteredUser(2, "b@x.com", "Bo", "Hunter456")}
    /\ cache = << >>
    /\ outstanding = {}
    /\ blacklist = {}
    /\ expired = {}
    /\ access = {}
    /\ tasks = {}
    /\ nextTaskId = 1
    /\ now = 1
    /\ inflight = {}
    /\ resp = EmptyResp
    /\ loggedOut = {}
    /\ prevPassword = [uid \in 1..MaxUsers |-> NoHash]

CreateInputs ==
    {[email |-> e, name |-> "Al", password |-> p, confirm_password |-> q] :
        e \in CreateEmails, p \in Passwords, q \in Passwords}
    \cup {[email |-> e, name |-> "A", password |-> "Secret123",
           confirm_password |-> "Secret123"] : e \in CreateEmails}
    \cup {[email |-> e, name |-> "Al", password |-> WeakPassword,
           confirm_password |-> WeakPassword] : e \in CreateEmails}

UpdateInputs ==
    {NoData, [NoData EXCEPT !.name = "Bo"]}
    \cup {[NoData EXCEPT !.email = e] : e \in Emails}
    \cup {[NoData EXCEPT !.password = p, !.confirm_password = q] :
            p \in Passwords, q \in Passwords \cup {""}}
    \cup {[NoData EXCEPT !.name = "Bo", !.password = p, !.confirm_password = p] :
            p \in Passwords}

Bearers == {a.token : a \in access} \cup {""}

\* Login, profile and the authentication cache.
NextAuth ==
    \/ \E e \in Emails \cup {""}, p \in Passwords \cup {""} : Login(e, p)
    \/ \E b \in Bearers, data \in UpdateInputs : ManageUserUpdate(b, data)
    \/ \E b \in Bearers : ManageUserRetrieve(b)
    \/ \E u \in users, flag \in BOOLEAN : AdminSetActive(u.id, flag)
    \/ \E key \in DOMAIN cache : CacheExpire(key)

Spec == InitRegistered /\ [][NextAuth]_vars

\* The four user endpoints: registration, login, profile retrieve and update.
UserCreateInputs ==
    {[email |-> e, name |-> "Al", password |-> "Secret123", confirm_password |-> q] :
        e \in Emails, q \in Passwords}

NextUser ==
    \/ \E data \in UserCreateInputs : CreateUser(data)
    \/ \E e \in Emails, p \in Passwords \cup {""} : Login(e, p)
    \/ \E b \in Bearers : ManageUserRetrieve(b)
    \/ \E b \in Bearers, data \in UpdateInputs : ManageUserUpdate(b, data)

SpecUser == InitEmpty /\ [][NextUser]_vars

\* Registration requests handled one after the other, logins, and the admin
\* site deactivating users.
NextCreate ==
    \/ \E data \in CreateInputs : CreateUser(data)
    \/ \E e \in CreateEmails, p \in Passwords : Login(e, p)
    \/ \E u \in users, flag \in BOOLEAN : AdminSetActive(u.id, flag)

SpecCreate == InitEmpty /\ [][NextCreate]_vars

\* Registration requests of two clients handled concurrently.
NextRace ==
    \/ \E c \in Clients, data \in CreateInputs : CreateUserValidate(c, data)
    \/ \E c \in Clients : CreateUserSave(c)

SpecRace == InitEmpty /\ [][NextRace]_vars

\* Refresh tokens: issued by login, refreshed, logged out, expiring.
RefreshInputs ==
    {"refresh_" \o ToString(j) : j \in 1..MaxRefresh} \cup {"invalid_token", ""}

NextToken ==
    \/ \E e \in Emails, p \in Passwords : Login(e, p)
    \/ \E t \in RefreshInputs : TokenRefresh(t)
    \/ \E t \in RefreshInputs : Logout(t)
    \/ \E t \in RefreshInputs : TokenExpire(t)
    \/ \E key \in DOMAIN cache : CacheExpire(key)

SpecToken == InitTwoUsers /\ [][NextToken]_vars

\* Two users have registered and logged in (POST /user/login/ answered 200).
InitLoggedIn ==
    /\ users = {RegisteredUser(1, "a@x.com", "Al", "Secret123"),
                RegisteredUser(2, "b@x.com", "Bo", "Hunter456")}
    /\ cache = << >>
    /\ outstanding = {[token |-> "refresh_1", jti |-> 1, user_id |-> 1],
                      [token |-> "refresh_2", jti |-> 2, user_id |-> 2]}
    /\ blacklist = {}
    /\ expired = {}
    /\ access = {[token |-> "access_1_1", user_id |-> 1, parent |-> 1],
                 [token |-> "access_2_1", user_id |-> 2, parent |-> 2]}
    /\ tasks = {}
    /\ nextTaskId = 1
    /\ now = 1
    /\ inflight = {}
    /\ resp = EmptyResp
    /\ loggedOut = {}
    /\ prevPassword = [uid \in 1..MaxUsers |-> NoHash]

TaskInputs ==
    {[title |-> t, status |-> s, due_date |-> NoDate, user |-> 0] :
        t \in {"", "Buy milk", "Walk dog", "ab"}, s \in {"", "completed"}}
    \cup {[title |-> "Buy milk", status |-> "completed", due_date |-> NoDate, user |-> u] :
            u \in {1, 2}}

TaskIds == 1..(MaxTasks + 1)

NextTask ==
    \/ \E b \in Bearers, data \in TaskInputs : TaskCreate(b, data)
    \/ \E b \in Bearers : TaskList(b)
    \/ \E b \in Bearers, pk \in TaskIds : TaskRetrieve(b, pk)
    \/ \E b \in Bearers, pk \in TaskIds, data \in TaskInputs : TaskUpdate(b, pk, data)
    \/ \E b \in Bearers, pk \in TaskIds : TaskDestroy(b, pk)

SpecTask == InitLoggedIn /\ [][NextTask]_vars

\* Sessions: logins with the registered password, refreshes, logouts and the
\* profile read with an access token.
SessionLogins == {<<"a@x.com", "Secret123">>, <<"b@x.com", "Hunter456">>}
PasswordInputs ==
    {[NoData EXCEPT !.password = p, !.confirm_password = p] : p \in Passwords}

NextSession ==
    \/ \E c \in SessionLogins : Login(c[1], c[2])
    \/ \E t \in RefreshInputs : TokenRefresh(t)
    \/ \E t \in RefreshInputs : Logout(t)
    \/ \E b \in Bearers : ManageUserRetrieve(b)

SpecSession == InitTwoUsers /\ [][NextSession]_vars

\* Two logged-in users change their passwords and go on using their tokens.
NextPassword ==
    \/ \E b \in Bearers, data \in PasswordInputs : ManageUserUpdate(b, data)
    \/ \E t \in RefreshInputs : TokenRefresh(t)
    \/ \E b \in Bearers : ManageUserRetrieve(b)
    \/ \E t \in RefreshInputs : Logout(t)

SpecPassword == InitLoggedIn /\ [][NextPassword]_vars

\* Tasks created and updated with due dates before, on and after today.
DueInputs ==
    {[title |-> t, status |-> "", due_date |-> d, user |-> 0] :
        t \in {"", "Buy milk"}, d \in Dates \cup {NoDate}}

NextDue ==
    \/ \E b \in Bearers, data \in DueInputs : TaskCreate(b, data)
    \/ \E b \in Bearers, pk \in TaskIds : TaskRetrieve(b, pk)
    \/ \E b \in Bearers, pk \in TaskIds, data \in DueInputs : TaskUpdate(b, pk, data)

SpecDue == InitLoggedIn /\ [][NextDue]_vars

\* The bearer-protected endpoints called with a valid, an expired, an unknown
\* and no access token.
BearerInputs == Bearers \cup {"invalid_token"}
BearerTaskInputs ==
    {[title |-> "Buy milk", status |-> "", due_date |-> NoDate, user |-> 0],
     [title |-> "", status |-> "completed", due_date |-> NoDate, user |-> 0]}
BearerUpdateInputs == {[NoData EXCEPT !.name = "Bo"]}

NextBearer ==
    \/ \E b \in BearerInputs : ManageUserRetrieve(b)
    \/ \E b \in BearerInputs, data \in BearerUpdateInputs : ManageUserUpdate(b, data)
    \/ \E b \in BearerInputs, data \in BearerTaskInputs : TaskCreate(b, data)
    \/ \E b \in BearerInputs : TaskList(b)
    \/ \E b \in BearerInputs, pk \in TaskIds : TaskRetrieve(b, pk)
    \/ \E b \in BearerInputs, pk \in TaskIds, data \in BearerTaskInputs :
          TaskUpdate(b, pk, data)
    \/ \E b \in BearerInputs, pk \in TaskIds : TaskDestroy(b, pk)
    \/ \E a \in access : AccessExpire(a.token)

SpecBearer == InitLoggedIn /\ [][NextBearer]_vars

\* One task, updated by two clients whose requests interleave; each request
\* supplies one field or none, and the clock moves between the requests.
FieldInputs ==
    {NoTaskData,
     [NoTaskData EXCEPT !.title = "Walk dog"],
     [NoTaskData EXCEPT !.status = "completed"]}

\* The access tokens of the first user.
OwnerBearers == {a.token : a \in {x \in access : x.user_id = 1}}

NextUpdate ==
    \/ \E b \in OwnerBearers : TaskCreate(b, [NoTaskData EXCEPT !.title = "Buy milk"])
    \/ \E c \in Clients, b \in OwnerBearers, pk \in 1..MaxTasks, data \in FieldInputs :
          TaskUpdateLoad(c, b, pk, data)
    \/ \E c \in Clients : TaskUpdateSave(c)
    \/ \E b \in OwnerBearers, pk \in 1..MaxTasks : TaskDestroy(b, pk)
    \/ Tick

SpecUpdate == InitLoggedIn /\ [][NextUpdate]_vars

\* ------------------------------------------------------------------- claims
Caller == JWTAuthentication(resp.bearer)
ObjectOps == {"task_retrieve", "task_update", "task_destroy"}
TaskOps == ObjectOps \cup {"task_list", "task_create"}
Outcome(r) == [status |-> r.status, detail |-> r.detail, body |-> r.body]
UniqueEmails == \A u1, u2 \in users : u1.email = u2.email => u1 = u2

\* C1: once logout with refresh token t has answered 200, every later refresh
\* request presenting t answers 401 and yields no access token, whether or not
\* t has expired and whatever happened in between.
C1_LoggedOutTokenNeverRefreshes ==
    (resp.op = "refresh" /\ resp.token \in loggedOut)
        => (resp.status = 401 /\ resp.access = "")

C1_Witness ==
    /\ resp.op = "refresh"
    /\ resp.token \in loggedOut
    /\ resp.token \notin expired
    /\ resp.status = 401

\* C2: a login whose password does not verify against the stored hash of the
\* user with that email answers 401 and issues no token, in every reachable state.
C2_WrongPasswordRejected ==
    \A u \in users :
        (/\ resp.op = "login"
         /\ resp.email = u.email
         /\ resp.password # ""
         /\ ~check_password(resp.password, u.password))
            => (resp.status = 401 /\ resp.access = "" /\ resp.refresh = "")

\* C3: after a profile update that changed the password, a login with the old
\* password fails and a login with the new password succeeds.
C3_PasswordChangeTakesEffect ==
    \A u \in users :
        (resp.op = "login" /\ resp.email = u.email /\ prevPassword[u.id] # NoHash)
            => /\ (/\ check_password(resp.password, prevPassword[u.id])
                   /\ ~check_password(resp.password, u.password))
                      => (resp.status = 401 /\ resp.access = "" /\ resp.refresh = "")
               /\ (check_password(resp.password, u.password) /\ u.is_active)
                      => resp.status = 200

\* C4: retrieve, update and delete of a task by a user who is not its owner
\* answer 404, and the same requests by the owner succeed.
C4_NonOwnerGets404 ==
    [][\A t \in tasks :
          (/\ resp'.op \in ObjectOps
           /\ resp'.id = t.id
           /\ JWTAuthentication(resp'.bearer) # NoUser)
             => IF t.user = JWTAuthentication(resp'.bearer).id
                THEN \/ resp'.op = "task_update" /\ ~resp'.validated
                     \/ resp'.status \in {200, 204}
                ELSE resp'.status = 404]_vars

\* C5: a task request never changes, deletes or returns a task of another user:
\* after the request every task the caller does not own is stored unchanged, and
\* the response holds only tasks of the caller.
C5_NonOwnerLeavesTaskAlone ==
    [][resp'.op \in TaskOps
          => /\ \A t \in tasks :
                   t.user # JWTAuthentication(resp'.bearer).id => t \in tasks'
             /\ \A t \in resp'.tasks : t.user = JWTAuthentication(resp'.bearer).id]_vars

C5_Witness ==
    /\ resp.op \in {"task_update", "task_destroy"}
    /\ Caller # NoUser
    /\ \E t \in tasks : t.id = resp.id /\ t.user # Caller.id

\* The response of the handler of resp.op for the caller on the given rows.
TaskOutcome(rows) ==
    CASE resp.op = "task_retrieve" -> Outcome(TaskViewSet_retrieve(rows, Caller, resp.id))
      [] resp.op = "task_update" -> Outcome(TaskViewSet_update(rows, Caller, resp.id, resp.data))
      [] resp.op = "task_destroy" -> Outcome(TaskViewSet_destroy(rows, Caller, resp.id))

\* C6: the response (status and body) to retrieve, update or delete of a task id
\* that exists but belongs to another user is the response the same request gets
\* when no task has that id.
C6_ForeignLooksMissing ==
    \A t \in tasks :
        (/\ resp.op \in ObjectOps
         /\ Caller # NoUser
         /\ t.id = resp.id
         /\ t.user # Caller.id)
            => [status |-> resp.status, detail |-> resp.detail, body |-> resp.tasks]
                 = TaskOutcome(tasks \ {t})

C6_Witness ==
    /\ resp.op = "task_retrieve"
    /\ Caller # NoUser
    /\ \E t \in tasks : t.id = resp.id /\ t.user # Caller.id

\* C7: a login with a registered email and a wrong password and a login with an
\* unregistered email get the same answer: 401 and the same error body.
C7_UniformCredentialFailure ==
    (/\ resp.op = "login"
     /\ resp.email # ""
     /\ resp.password # ""
     /\ \A u \in users : u.email = resp.email => ~check_password(resp.password, u.password))
        => (resp.status = 401 /\ resp.detail = "Invalid credentials.")

\* C8: a login never answers 200 for a user who is inactive when the request is
\* made.
C8_InactiveNeverLogsIn ==
    (resp.op = "login" /\ resp.status = 200) => UserById(resp.user.id).is_active

\* An email is registered when a stored user has it; the stored email is the
\* normalized form of the one the registration request carried.
Registered(email) == \E u \in users : u.email = normalize_email(email)

\* C9: at most one user is stored per email, and a registration request for an
\* email that is already registered answers 400 and leaves the users unchanged.
C9_DuplicateEmailRejected ==
    [][/\ UniqueEmails'
       /\ (resp'.op = "create" /\ Registered(resp'.email))
             => (resp'.status = 400 /\ users' = users)]_vars

\* C10: of two concurrent registrations of the same unused email, both validated
\* before either is saved, one creates the user and the other answers 400; there
\* is no server error and one user is stored.
C10_RaceLoserGets400 ==
    /\ UniqueEmails
    /\ (/\ resp.op = "create"
        /\ resp.validated
        /\ \E u \in users : u.email = resp.email /\ u.id # resp.user.id)
           => resp.status = 400

\* C11: a registration request that fails validation (the two passwords differ,
\* the password violates the strength policy, or the name has fewer than two
\* characters) answers 400 and the stored users are the same before and after.
C11_InvalidRegistrationPersistsNothing ==
    [][(/\ resp'.op = "create"
        /\ \/ resp'.password # resp'.confirm_password
           \/ ~validate_password(resp'.password)
           \/ Len(resp'.name) < 2)
          => (resp'.status = 400 /\ users' = users)]_vars

C11_Witness ==
    /\ resp.op = "create"
    /\ resp.status = 400
    /\ users # {}
    /\ ~Registered(resp.email)
    /\ resp.password # resp.confirm_password

\* C12: after a registration with password p that answered 201 the stored
\* password of the new user is a hash that verifies against p and is not p, and
\* a login with the same email and p that follows immediately answers 200.
C12_StoredHashVerifies ==
    [][/\ (resp'.op = "create" /\ resp'.status = 201)
             => \E u \in users' :
                   /\ u.id = resp'.user.id
                   /\ u \notin users
                   /\ check_password(resp'.password, u.password)
                   /\ u.password # resp'.password
       /\ (/\ resp.op = "create" /\ resp.status = 201
           /\ resp'.op = "login"
           /\ resp'.email = resp.email /\ resp'.password = resp.password)
             => resp'.status = 200]_vars

UserOps == {"create", "login", "me_retrieve", "me_update"}

\* The plaintext passwords of the request and the password hashes that are or
\* were stored.
Secrets ==
    ({resp.password, resp.confirm_password} \ {""})
    \cup {u.password : u \in users}
    \cup ({prevPassword[uid] : uid \in DOMAIN prevPassword} \ {NoHash})

C14_EmailImmutable ==
    [][resp'.op = "me_update"
          => \A u \in users : \E v \in users' : v.id = u.id /\ v.email = u.email]_vars

\* C15: a profile update with a password whose confirm_password is missing or
\* different answers 400 and leaves the stored users unchanged; a partial update
\* with only a name answers 200, stores the name and keeps the password hash.
C15_UpdateNeedsConfirmation ==
    [][(resp'.op = "me_update" /\ JWTAuthentication(resp'.bearer) # NoUser)
          => LET me == JWTAuthentication(resp'.bearer)
             IN /\ (resp'.password # "" /\ resp'.confirm_password # resp'.password)
                      => (resp'.status = 400 /\ users' = users)
                /\ (/\ Len(resp'.name) >= 2 /\ resp'.email = ""
                    /\ resp'.password = "" /\ resp'.confirm_password = "")
                      => /\ resp'.status = 200
                         /\ users' = (users \ {me}) \cup {[me EXCEPT !.name = resp'.name]}]_vars

C15_Witness ==
    /\ resp.op = "me_update"
    /\ resp.status = 400
    /\ resp.password # ""
    /\ resp.confirm_password = ""

\* C16: a logout whose refresh token is absent, malformed, expired or already
\* blacklisted (a repeated logout included) answers 400, never 5xx, and leaves
\* the blacklist unchanged.
C16_BadLogoutIs400 ==
    [][(/\ resp'.op = "logout"
        /\ \/ resp'.token = ""
           \/ \A t \in outstanding : t.token # resp'.token
           \/ resp'.token \in expired
           \/ resp'.token \in loggedOut)
          => (resp'.status = 400 /\ blacklist' = blacklist)]_vars

C16_Witness ==
    /\ resp.op = "logout"
    /\ resp.status = 400
    /\ resp.token \in loggedOut
    /\ resp.token \notin expired

\* C17: a refresh with a refresh token that is neither expired nor blacklisted
\* answers 200 with a new access token for the user of the refresh token and
\* with no new refresh token, and leaves the refresh token as it was (not
\* blacklisted, not expired, still outstanding), however often it has been used.
C17_RefreshDoesNotRotate ==
    [][\A t \in outstanding :
          (/\ resp'.op = "refresh"
           /\ resp'.token = t.token
           /\ t.token \notin expired
           /\ t.jti \notin blacklist)
             => /\ resp'.status = 200
                /\ resp'.refresh = ""
                /\ \A a \in access : a.token # resp'.access
                /\ \E a \in access' : a.token = resp'.access /\ a.user_id = t.user_id
                /\ outstanding' = outstanding
                /\ blacklist' = blacklist
                /\ expired' = expired]_vars

C17_Witness ==
    /\ resp.op = "refresh"
    /\ resp.status = 200
    /\ \E t \in outstanding :
          /\ t.token = resp.token
          /\ Cardinality({a \in access : a.parent = t.jti}) >= 3

BearerOps == TaskOps \cup {"me_retrieve", "me_update"}

\* C18: a request to GET or PATCH /user/me or to any task operation that carries
\* no access token, or one that is unknown or expired, answers 401 and changes no
\* stored user and no stored task.
C18_NoTokenIs401 ==
    [][(/\ resp'.op \in BearerOps
        /\ \/ resp'.bearer = ""
           \/ \A a \in access : a.token # resp'.bearer
           \/ resp'.bearer \in expired)
          => (resp'.status = 401 /\ users' = users /\ tasks' = tasks)]_vars

C18_Witness ==
    /\ resp.op = "task_destroy"
    /\ resp.status = 401
    /\ resp.bearer \in expired
    /\ \E t \in tasks : t.id = resp.id /\ \E a \in access : a.token = resp.bearer /\ a.user_id = t.user

\* C19: creating or updating a task with a due date before today answers 400 and
\* stores nothing; with a due date of today or later the request is accepted and
\* the date is stored, on create and on update.
C19_PastDueDateIs400 ==
    [][(/\ resp'.op \in {"task_create", "task_update"}
        /\ JWTAuthentication(resp'.bearer) # NoUser
        /\ resp'.data.due_date # NoDate)
          => LET me == JWTAuthentication(resp'.bearer)
                 d == resp'.data.due_date
                 own == \E t \in tasks : t.id = resp'.id /\ t.user = me.id
             IN /\ (d < Today /\ (resp'.op = "task_create" \/ own))
                      => (resp'.status = 400 /\ tasks' = tasks)
                /\ (d >= Today /\ resp'.op = "task_create" /\ resp'.data.title # "")
                      => /\ resp'.status = 201
                         /\ \E t \in tasks' \ tasks : t.due_date = d
                /\ (d >= Today /\ resp'.op = "task_update" /\ own)
                      => /\ resp'.status = 200
                         /\ \E t \in tasks' : t.id = resp'.id /\ t.due_date = d]_vars

\* C20: every stored task has exactly one owner, a stored user; the owner of a
\* new task is the caller of the create request whatever user the request body
\* names, and no request changes the owner of a stored task.
C20_OwnerIsCreatorForever ==
    [][/\ \A t \in tasks' : \E u \in users' : u.id = t.user
       /\ \A t1, t2 \in tasks' : t1.id = t2.id => t1 = t2
       /\ (resp'.op = "task_create" /\ resp'.status = 201)
             => \E t \in tasks' \ tasks :
                   /\ tasks' = tasks \cup {t}
                   /\ t.user = JWTAuthentication(resp'.bearer).id
       /\ \A t \in tasks : \A t2 \in tasks' : t2.id = t.id => t2.user = t.user]_vars

C20_Witness ==
    /\ resp.op = "task_update"
    /\ resp.status = 200
    /\ resp.data.user \notin {0, Caller.id}
    /\ \E t \in tasks : t.id = resp.id

\* C21: a login request without the email or without the password answers 400,
\* not 401; the authentication cache is not written, an entry it holds for the
\* email decides nothing, and no token is issued.
C21_MissingFieldIs400 ==
    [][(resp'.op = "login" /\ (resp'.email = "" \/ resp'.password = ""))
          => /\ resp'.status = 400
             /\ resp'.refresh = "" /\ resp'.access = ""
             /\ cache' = cache
             /\ outstanding' = outstanding
             /\ access' = access]_vars

C21_Witness ==
    /\ resp.op = "login"
    /\ resp.status = 400
    /\ resp.email # ""
    /\ resp.password = ""
    /\ AuthCacheKey(resp.email) \in DOMAIN cache

\* C22: once a password change of a user has completed, the authentication
\* cache holds no entry for the email of that user that was filled by a
\* verification against the previous password: an entry there holds the
\* current hash.
C22_NoStaleAuthEntry ==
    \A u \in users :
        (prevPassword[u.id] # NoHash /\ AuthCacheKey(u.email) \in DOMAIN cache)
            => cache[AuthCacheKey(u.email)].password = u.password

\* C23: the authentication cache is written only by a login that has just
\* verified the submitted password: an entry that a step adds or changes is
\* keyed by the email of a login answering 200 and holds a stored user who has
\* that email, is active and whose hash verifies the submitted password; failed
\* logins and registrations add no entry.
C23_CacheWrittenByVerifiedLogin ==
    [][\A k \in DOMAIN cache' :
          (k \notin DOMAIN cache \/ cache'[k] # cache[k])
             => /\ resp'.op = "login"
                /\ resp'.status = 200
                /\ k = AuthCacheKey(resp'.email)
                /\ cache'[k] \in users
                /\ cache'[k].email = resp'.email
                /\ cache'[k].is_active
                /\ check_password(resp'.password, cache'[k].password)]_vars

C23_Witness ==
    /\ resp.op = "login"
    /\ resp.status = 401
    /\ \E u \in users : u.email = resp.email /\ ~u.is_active
    /\ \E u \in users : AuthCacheKey(u.email) \in DOMAIN cache
    /\ AuthCacheKey(resp.email) \notin DOMAIN cache

\* C24: a registration request whose email is not the stored email of a user
\* but normalizes to it (it differs in the letter case of the domain) answers
\* 400, not a server error, and creates no user.
C24_CaseVariantIs400 ==
    [][(/\ resp'.op = "create"
        /\ \E u \in users :
              u.email # resp'.email /\ u.email = normalize_email(resp'.email))
          => (resp'.status = 400 /\ users' = users)]_vars

\* C25: a logout with a refresh token t that verifies answers 200 with no access
\* token presented and changes nothing but the blacklist, which gains t: every
\* other refresh token that refreshed before still does, and every access token,
\* those made from t included, is accepted by the protected endpoints afterwards
\* exactly when it was before.
C25_LogoutOnlyBlacklists ==
    [][\A t \in outstanding :
          (/\ resp'.op = "logout"
           /\ resp'.token = t.token
           /\ RefreshToken_verify(t.token) = "")
             => /\ resp'.status = 200
                /\ resp'.bearer = ""
                /\ blacklist' = blacklist \cup {t.jti}
                /\ UNCHANGED <<users, cache, outstanding, expired, access, tasks>>
                /\ \A t2 \in outstanding \ {t} :
                      RefreshToken_verify(t2.token) = ""
                         => (TokenRefreshView_post(t2.token).status = 200)'
                /\ \A a \in access :
                      JWTAuthentication(a.token)' = JWTAuthentication(a.token)]_vars

C25_Witness ==
    /\ resp.op = "me_retrieve"
    /\ resp.status = 200
    /\ \E a \in access : a.token = resp.bearer /\ a.parent \in blacklist
    /\ \E t \in outstanding : RefreshToken_verify(t.token) = ""

\* C26: a profile update that changes the password revokes no token: the
\* refresh tokens, the blacklist and the access tokens are as before, every
\* refresh token of the user that refreshed before still does, and every access
\* token of the user that was accepted before still is.
C26_PasswordChangeKeepsTokens ==
    [][(resp'.op = "me_update" /\ resp'.status = 200 /\ resp'.password # "")
          => /\ UNCHANGED <<outstanding, blacklist, expired, access>>
             /\ \A t \in outstanding :
                   RefreshToken_verify(t.token) = ""
                      => (TokenRefreshView_post(t.token).status = 200)'
             /\ \A a \in access :
                   JWTAuthentication(a.token) # NoUser
                      => JWTAuthentication(a.token)'.id = a.user_id]_vars

C26_Witness ==
    /\ resp.op = "refresh"
    /\ resp.status = 200
    /\ \E t \in outstanding :
          /\ t.token = resp.token
          /\ prevPassword[t.user_id] # NoHash
          /\ UserById(t.user_id).password # prevPassword[t.user_id]

\* C27: a successful task update writes exactly the fields supplied in the
\* request: in the stored row of the task those fields take the request's
\* values and every other field, owner, created_at and updated_at included,
\* keeps the value it had just before the save; no other row changes. So of two
\* updates that touch disjoint fields neither undoes the other.
C27_UpdateWritesSuppliedFieldsOnly ==
    [][(resp'.op = "task_update" /\ resp'.status = 200) =>
         tasks' = {IF t.id # resp'.id THEN t
                   ELSE [t EXCEPT
                           !.title = IF resp'.data.title # "" THEN resp'.data.title ELSE @,
                           !.status = IF resp'.data.status # "" THEN resp'.data.status ELSE @,
                           !.due_date = IF resp'.data.due_date # NoDate
                                        THEN resp'.data.due_date ELSE @]
                   : t \in tasks}]_vars

\* A status-only update answered 200 from an instance loaded before a title-only
\* update was saved: the row holds both new values, and its updated_at is older
\* than the clock.
C27_Witness ==
    /\ resp.op = "task_update"
    /\ resp.status = 200
    /\ resp.data = [NoTaskData EXCEPT !.status = "completed"]
    /\ \E b \in resp.tasks : b.title = "Buy milk"
    /\ \E t \in tasks :
          /\ t.id = resp.id
          /\ t.title = "Walk dog"
          /\ t.status = "completed"
          /\ t.created_at = t.updated_at
          /\ t.updated_at < now
====
